---- MODULE Spec2Model ----
(***************************************************************************)
(* arxivdigest_recommenders: the rate limiter (util.AsyncRateLimiter),     *)
(* the memoised per-author vector build, the citation/collaborator caches  *)
(* of PrevCitedCollabRecommender and the ranking pipeline of               *)
(* ArxivdigestRecommender, each as a state machine of its own.             *)
(***************************************************************************)
EXTENDS Integers, Sequences, FiniteSets, TLC

(***************************************************************************)
(* Bounds of the model.                                                    *)
(***************************************************************************)
\* tasks that enter the limiter concurrently
NumLimTasks == 2
\* the clock runs from 0 to MaxTime
MaxTime == 4
\* completed entries recorded in the history
MaxEntries == 4
\* max_enters is drawn from 1..MaxMaxEnters
MaxMaxEnters == 2
\* window_size is drawn from 1..MaxWindow
MaxWindow == 2

\* tasks that call get_author_representation concurrently
NumVecTasks == 3

\* score_paper tasks of one chunk, running concurrently
NumCiteTasks == 2

\* max_recommendations is drawn from 0..MaxRec
MaxRec == 2

\* operations handed to one util.gather call
NumOps == 3

\* paper lookups gathered inside one scoped use of the client
NumPaperCalls == 2

\* the connector hands out at most MaxBatch user ids per request
MaxBatch == 2

LimTasks == 1..NumLimTasks
CiteTasks == 1..NumCiteTasks
VecTasks == 1..NumVecTasks
NoTask == 0

(***************************************************************************)
(* The remote data the runs read (Semantic Scholar's answers).             *)
(***************************************************************************)
\* S2 author ids; 0 stands for an absent id (authorId: None)
AuthorIds == {1, 2, 3}
NoneId == 0
\* author["papers"] of each author, all within the year cutoff
OwnPapers(a) == CASE a = 1 -> {11} [] a = 2 -> {21} [] OTHER -> {31, 32}
\* the venue index of each of those papers
Venue(p) == IF p \in {11, 31} THEN 1 ELSE 2
\* "s2_id not in self._authors"
NoVec == <<-1>>

\* connector.get_article_ids(): the candidate papers, and each one's authors
RecPaperIds == <<1, 2, 3>>
RecPaperAuthors(p) ==
    CASE p = 1 -> <<[authorId |-> 0, name |-> "X"], [authorId |-> 3, name |-> "C"]>>
      [] p = 2 -> <<[authorId |-> 1, name |-> "A"], [authorId |-> 3, name |-> "C"]>>
      [] OTHER -> <<[authorId |-> 0, name |-> "Y"]>>
\* users.items(): the user ids of the batch, and the path of each one's
\* semantic_scholar_profile split at "/" (its last segment is the S2 id)
RecUsers == <<1, 2, 3>>
ProfilePath(u) ==
    CASE u = 1 -> <<NoneId, 7, 1>>
      [] u = 2 -> <<NoneId>>
      [] OTHER -> <<NoneId, 7, 2>>
\* the article ids a user's interleaved list is drawn from
InterleavedPool == {2}

\* the user scored by the citation strategy, and every author id of that world
UserS2 == 1
CiteUsers == {UserS2}
CiteIds == 1..5
\* the author ids of the user's own papers, paper after paper (author_papers(user))
UserPaperAuthors == <<1, 2, 0, 3, 2>>
CollabIds == {2, 3}
\* the author ids of the references of each collaborator's papers, in order
RefAuthors(c) == IF c = 2 THEN <<4, 5, 4, 0>> ELSE <<5, 5, 4, 5, 2>>
\* the candidate papers of the citation strategy and their authors' ids
CitePapers == 1..5
CitePaperAuthors(p) ==
    CASE p = 1 -> <<4, 5>>
      [] p = 2 -> <<5, 3>>
      [] p = 3 -> <<1, 4>>
      [] p = 4 -> <<>>
      [] OTHER -> <<0, 4>>
\* "s2_id not in self._citation_counts", "s2_id not in self._collaborators"
NoTable == <<>>
NoCollabs == <<-1>>

VARIABLES
    \* ---- AsyncRateLimiter ----
    max_enters,     \* self.max_enters
    window_size,    \* self.window_size
    enters,         \* self.enters: timestamps of the current window
    limLock,        \* self.lock: the task holding it, or NoTask
    lpc,            \* each task's position in __aenter__
    wake,           \* when a sleeping task's asyncio.sleep is due
    ttnw,           \* each task's time_to_new_window
    now,            \* time.monotonic()
    history         \* every timestamp ever appended to enters, in order

limVars == <<max_enters, window_size, enters, limLock, lpc, wake, ttnw, now, history>>

VARIABLES
    \* ---- ArxivdigestRecommender.get_author_representation ----
    authors,        \* self._authors: author id -> vector, NoVec when missing
    author_locks,   \* self._author_locks: author id -> holder, or NoTask
    vpc,            \* each task's position in get_author_representation
    vtarget,        \* the s2_id each task asked for
    vret,           \* the vector each task returned
    authorFetches,  \* per author id: fetch-and-build sequences started
    buildFailures,  \* per author id: sequences ended by a failed author fetch
    cacheWrites     \* per author id: assignments to self._authors[s2_id]

vecVars == <<authors, author_locks, vpc, vtarget, vret, authorFetches, buildFailures, cacheWrites>>

VARIABLES
    \* ---- PrevCitedCollabRecommender ----
    citation_counts,  \* self._citation_counts: collaborator id -> table, NoTable when missing
    collaborators,    \* self._collaborators: user id -> collaborator ids in dict order
    ctask,            \* each score_paper task: position and locals
    ccWrites,         \* per collaborator id: times its table was computed and written
    collabWrites      \* per user id: times the collaborator set was computed and written

citeVars == <<citation_counts, collaborators, ctask, ccWrites, collabWrites>>

VARIABLES
    \* ---- ArxivdigestRecommender: _gen_paper_representations, recommendations ----
    rpc,                  \* where the run is
    fetched,              \* papers: the candidate papers s2.paper answered for, in order
    genCalls,             \* per fetched paper: the get_author_representation lookups of its authors
    papers,               \* self._papers: paper id -> entries {name, representation}
    interleaved_papers,   \* argument of recommendations(): user id -> article ids
    max_recommendations,  \* argument of recommendations()
    utask,                \* per user: the user_recommendations task
    recommendations       \* the map recommendations() returned

recVars == <<rpc, fetched, genCalls, papers, interleaved_papers, max_recommendations,
             utask, recommendations>>

VARIABLES
    \* ---- util.gather ----
    gops,                    \* how each operation of the batch settled, "pending" before
    gpc,                     \* "waiting" for the batch, or "returned"
    gresult,                 \* the list gather returned
    cancelled_is_exception   \* whether asyncio.CancelledError derives from Exception
                             \* (it does before Python 3.8, it does not from 3.8 on)

gatherVars == <<gops, gpc, gresult, cancelled_is_exception>>

VARIABLES
    \* ---- SemanticScholar client, one `async with SemanticScholar() as s2` ----
    session,     \* self._session: "None", "open", or "closed" (closed, not yet dropped)
    spc,         \* where the scope is: "created", "author", "papers", "closing", "exited"
    exitPath,    \* "" inside the scope, then "normal" or "failing"
    lookups        \* per lookup: its arguments, its position, the limiter slots it
                 \* acquired and the requests it made on the session

clientVars == <<session, spc, exitPath, lookups>>

VARIABLES
    \* ---- ArxivdigestRecommender.recommend ----
    mpc,                   \* "idle", "gen" (awaiting _gen_paper_representations), "loop"
                           \* (at the while test), "batch" (awaiting recommendations),
                           \* "finished", "raised"
    total_users,           \* what get_number_of_users answered
    recommendation_count,  \* the loop counter, also the offset of the next request
    user_ids,              \* the batch the connector handed out
    scored                 \* the users a user_recommendations task has been run for

mainVars == <<mpc, total_users, recommendation_count, user_ids, scored>>

vars == <<limVars, vecVars, citeVars, recVars, gatherVars, clientVars, mainVars>>
notLimVars == <<vecVars, citeVars, recVars, gatherVars, clientVars, mainVars>>
notVecVars == <<limVars, citeVars, recVars, gatherVars, clientVars, mainVars>>
notCiteVars == <<limVars, vecVars, recVars, gatherVars, clientVars, mainVars>>
\* what the ranking pipeline leaves alone: it reads and fills self._authors
notRecVars == <<limVars, citeVars, author_locks, vpc, vtarget, vret, authorFetches, buildFailures,
                gatherVars, clientVars, mainVars>>
notGatherVars == <<limVars, vecVars, citeVars, recVars, clientVars, mainVars>>
notClientVars == <<limVars, vecVars, citeVars, recVars, gatherVars, mainVars>>
\* what the batch loop of recommend() leaves alone while users are scored
notMainVars == <<limVars, citeVars, author_locks, vpc, vtarget, vret, authorFetches, buildFailures,
                 gatherVars, clientVars, recVars>>

Max2(a, b) == IF a >= b THEN a ELSE b

(***************************************************************************)
(* util.AsyncRateLimiter                                                   *)
(***************************************************************************)
LimInit ==
    /\ max_enters \in 1..MaxMaxEnters
    /\ window_size \in 1..MaxWindow
    /\ enters = <<>>
    /\ limLock = NoTask
    /\ lpc = [t \in LimTasks |-> "idle"]
    /\ wake = [t \in LimTasks |-> 0]
    /\ ttnw = [t \in LimTasks |-> 0]
    /\ now = 0
    /\ history = <<>>

\* the sleep computed without the window's length
TimeToNewWindow_NoWindow == Max2(enters[1] - now, 0)
\* time_to_new_window = max(self.enters[0] + self.window_size - time.monotonic(), 0)
TimeToNewWindow == Max2(enters[1] + window_size - now, 0)

\* a task calls __aenter__ and queues for self.lock
LimRequest(t) ==
    /\ lpc[t] = "idle"
    /\ Len(history) + Cardinality({u \in LimTasks : lpc[u] \in {"waitlock", "sleeping"}}) < MaxEntries
    /\ lpc' = [lpc EXCEPT ![t] = "waitlock"]
    /\ ttnw' = [ttnw EXCEPT ![t] = 0]
    /\ UNCHANGED <<max_enters, window_size, enters, limLock, wake, now, history>>
    /\ UNCHANGED notLimVars

\* the limiter entered without regard to who holds self.lock
LimLockFree_NoLock == TRUE
\* async with self.lock: the lock can be taken
LimLockFree == limLock = NoTask

\* the task gets the lock and runs to its first suspension: the sleep when the
\* window is full, the end of __aenter__ otherwise
LimAcquire(t) ==
    /\ lpc[t] = "waitlock"
    /\ LimLockFree
    /\ IF Len(enters) = max_enters
       THEN /\ limLock' = t
            /\ ttnw' = [ttnw EXCEPT ![t] = TimeToNewWindow]
            /\ wake' = [wake EXCEPT ![t] = now + TimeToNewWindow]
            /\ lpc' = [lpc EXCEPT ![t] = "sleeping"]
            /\ UNCHANGED <<enters, history>>
       ELSE /\ enters' = Append(enters, now)
            /\ history' = Append(history, now)
            /\ lpc' = [lpc EXCEPT ![t] = "done"]
            /\ UNCHANGED <<limLock, wake, ttnw>>
    /\ UNCHANGED <<max_enters, window_size, now>>
    /\ UNCHANGED notLimVars

\* asyncio.sleep returns (no earlier than it is due): clear, append, release
LimWake(t) ==
    /\ lpc[t] = "sleeping"
    /\ now >= wake[t]
    /\ enters' = <<now>>
    /\ history' = Append(history, now)
    /\ limLock' = NoTask
    /\ lpc' = [lpc EXCEPT ![t] = "done"]
    /\ UNCHANGED <<max_enters, window_size, wake, ttnw, now>>
    /\ UNCHANGED notLimVars

\* __aexit__: nothing to release
LimExit(t) ==
    /\ lpc[t] = "done"
    /\ lpc' = [lpc EXCEPT ![t] = "idle"]
    /\ UNCHANGED <<max_enters, window_size, enters, limLock, wake, ttnw, now, history>>
    /\ UNCHANGED notLimVars

\* the monotonic clock advances
Tick ==
    /\ now < MaxTime
    /\ now' = now + 1
    /\ UNCHANGED <<max_enters, window_size, enters, limLock, lpc, wake, ttnw, history>>
    /\ UNCHANGED notLimVars

LimNext ==
    \/ \E t \in LimTasks : LimRequest(t)
    \/ \E t \in LimTasks : LimAcquire(t)
    \/ \E t \in LimTasks : LimWake(t)
    \/ \E t \in LimTasks : LimExit(t)
    \/ Tick

(***************************************************************************)
(* ArxivdigestRecommender.get_author_representation                        *)
(***************************************************************************)
VecInit ==
    /\ authors = [a \in AuthorIds |-> NoVec]
    /\ author_locks = [a \in AuthorIds |-> NoTask]
    /\ vpc = [t \in VecTasks |-> "idle"]
    /\ vtarget = [t \in VecTasks |-> NoneId]
    /\ vret = [t \in VecTasks |-> NoVec]
    /\ authorFetches = [a \in AuthorIds |-> 0]
    /\ buildFailures = [a \in AuthorIds |-> 0]
    /\ cacheWrites = [a \in AuthorIds |-> 0]

MaxOf(S) == IF S = {} THEN 0 ELSE CHOOSE x \in S : \A y \in S : y <= x

\* author_representation(author, published_papers): position i counts the
\* fetched papers published at venue i
AuthorRepr(a, published) ==
    [i \in 1..MaxOf({Venue(p) : p \in published}) |->
        Cardinality({p \in published : Venue(p) = i})]

\* the per-author lock taken without regard to its holder
LockFree_NoLock(a) == TRUE
\* async with self._author_locks[s2_id]: the lock can be taken
LockFree(a) == author_locks[a] = NoTask

\* a task calls get_author_representation(a) and reaches the lock
VecCall(t, a) ==
    /\ vpc[t] = "idle"
    /\ vpc' = [vpc EXCEPT ![t] = "waitlock"]
    /\ vtarget' = [vtarget EXCEPT ![t] = a]
    /\ UNCHANGED <<authors, author_locks, vret, authorFetches, buildFailures, cacheWrites>>
    /\ UNCHANGED notVecVars

\* the lock is taken: a cached vector is returned at once, otherwise the
\* task opens a client and awaits s2.author(s2_id) holding the lock
VecAcquire(t) ==
    /\ vpc[t] = "waitlock"
    /\ LockFree(vtarget[t])
    /\ IF authors[vtarget[t]] # NoVec
       THEN /\ vret' = [vret EXCEPT ![t] = authors[vtarget[t]]]
            /\ vpc' = [vpc EXCEPT ![t] = "returned"]
            /\ UNCHANGED <<author_locks, authorFetches>>
       ELSE /\ author_locks' = [author_locks EXCEPT ![vtarget[t]] = t]
            /\ authorFetches' = [authorFetches EXCEPT ![vtarget[t]] = @ + 1]
            /\ vpc' = [vpc EXCEPT ![t] = "fetchAuthor"]
            /\ UNCHANGED vret
    /\ UNCHANGED <<authors, vtarget, buildFailures, cacheWrites>>
    /\ UNCHANGED notVecVars

\* s2.author(s2_id) answers: the paper fetches are gathered
VecAuthorFetched(t) ==
    /\ vpc[t] = "fetchAuthor"
    /\ vpc' = [vpc EXCEPT ![t] = "fetchPapers"]
    /\ UNCHANGED <<authors, author_locks, vtarget, vret, authorFetches, buildFailures, cacheWrites>>
    /\ UNCHANGED notVecVars

\* a builder that keeps the per-author lock when it raises
HolderAfterRaise_Kept(t) == t
\* the exception leaves `async with self._author_locks[s2_id]`: nobody holds the lock
HolderAfterRaise(t) == NoTask

\* s2.author(s2_id) raises: the client and the lock are released, nothing is stored
VecAuthorFetchFailed(t) ==
    /\ vpc[t] = "fetchAuthor"
    /\ author_locks' = [author_locks EXCEPT ![vtarget[t]] = HolderAfterRaise(t)]
    /\ buildFailures' = [buildFailures EXCEPT ![vtarget[t]] = @ + 1]
    /\ vpc' = [vpc EXCEPT ![t] = "raised"]
    /\ UNCHANGED <<authors, vtarget, vret, authorFetches, cacheWrites>>
    /\ UNCHANGED notVecVars

\* every paper fetch has settled (gather keeps the successful ones, ok): the
\* vector is built and stored, the lock released, the stored vector returned
VecPapersSettled(t, ok) ==
    /\ vpc[t] = "fetchPapers"
    /\ authors' = [authors EXCEPT ![vtarget[t]] = AuthorRepr(vtarget[t], ok)]
    /\ cacheWrites' = [cacheWrites EXCEPT ![vtarget[t]] = @ + 1]
    /\ author_locks' = [author_locks EXCEPT ![vtarget[t]] = NoTask]
    /\ vret' = [vret EXCEPT ![t] = authors'[vtarget[t]]]
    /\ vpc' = [vpc EXCEPT ![t] = "returned"]
    /\ UNCHANGED <<vtarget, authorFetches, buildFailures>>
    /\ UNCHANGED notVecVars

VecNext ==
    \/ \E t \in VecTasks, a \in AuthorIds : VecCall(t, a)
    \/ \E t \in VecTasks : VecAcquire(t)
    \/ \E t \in VecTasks : VecAuthorFetched(t)
    \/ \E t \in VecTasks : VecAuthorFetchFailed(t)
    \/ \E t \in VecTasks : \E ok \in SUBSET OwnPapers(vtarget[t]) : VecPapersSettled(t, ok)

(***************************************************************************)
(* PrevCitedCollabRecommender: collaborators, citation_counts, score_paper *)
(***************************************************************************)
NoAuthor == -1
IdleTask ==
    [pc |-> "idle", paper |-> 0, i |-> 0, score |-> 0,
     most_cited_author |-> NoAuthor, citer |-> NoAuthor,
     seen |-> [c \in CollabIds |-> NoTable]]

CiteInit ==
    /\ citation_counts = [c \in CollabIds |-> NoTable]
    /\ collaborators = [u \in CiteUsers |-> NoCollabs]
    /\ ctask = [t \in CiteTasks |-> IdleTask]
    /\ ccWrites = [c \in CollabIds |-> 0]
    /\ collabWrites = [u \in CiteUsers |-> 0]

SeqToSet(q) == {q[k] : k \in DOMAIN q}
Occurrences(q, x) == Cardinality({k \in DOMAIN q : q[k] = x})

\* self._collaborators[s2_id][author["authorId"]] = author, for every author of
\* every paper that has an id other than the user's: a new key goes last, a
\* key already there keeps its place
RECURSIVE StoreCollaborators(_, _, _)
StoreCollaborators(dict, ids, u) ==
    IF ids = <<>> THEN dict
    ELSE StoreCollaborators(
            IF Head(ids) # NoneId /\ Head(ids) # u /\ Head(ids) \notin SeqToSet(dict)
            THEN Append(dict, Head(ids)) ELSE dict,
            Tail(ids), u)

\* a table computed into a fresh entry, whatever the entry held
TallyCitations_Fresh(table, refs) ==
    [a \in CiteIds |-> Occurrences(refs, a)]
\* self._citation_counts[s2_id][author["authorId"]] += 1 for every reference
\* author that has an id; a missing entry counts from 0
TallyCitations(table, refs) ==
    [a \in CiteIds |-> (IF table = NoTable THEN 0 ELSE table[a]) + Occurrences(refs, a)]

\* citation_counts[a["authorId"]] of the defaultdict: 0 for an id it does not hold
Count(table, a) == IF a \in DOMAIN table THEN table[a] ELSE 0

\* max(paper["authors"], key=...): the first author with the highest count
MostCited(table, au) ==
    au[CHOOSE k \in DOMAIN au :
            /\ \A j \in DOMAIN au : Count(table, au[j]) <= Count(table, au[k])
            /\ \A j \in 1..(k - 1) : Count(table, au[j]) < Count(table, au[k])]

\* one pass of the loop body for collaborator c, its table in hand
ScoreCollaborator(st, c, table) ==
    LET au == CitePaperAuthors(st.paper)
        read == [st EXCEPT !.seen[c] = table, !.i = @ + 1]
    IN  IF c \in SeqToSet(au) THEN read
        ELSE LET m == MostCited(table, au)
             IN  IF Count(table, m) > st.score
                 THEN [read EXCEPT !.score = Count(table, m),
                                   !.most_cited_author = m, !.citer = c]
                 ELSE read

\* the loop over collaborators.items() from position st.i up to the next
\* suspension (a table that must be fetched) or the return
RECURSIVE RunLoop(_, _, _)
RunLoop(st, cc, collabs) ==
    IF st.i > Len(collabs) THEN [st EXCEPT !.pc = "returned"]
    ELSE IF cc[collabs[st.i]] = NoTable THEN [st EXCEPT !.pc = "fetchCites"]
    ELSE RunLoop(ScoreCollaborator(st, collabs[st.i], cc[collabs[st.i]]), cc, collabs)

\* the paper has no authors, or the user is one of them
Unscorable(p, u) ==
    Len(CitePaperAuthors(p)) = 0 \/ u \in SeqToSet(CitePaperAuthors(p))

\* score_paper(user, user_s2_id, paper_id) is called and awaits s2.paper
ScoreStart(t, p) ==
    /\ ctask[t].pc = "idle"
    /\ ctask' = [ctask EXCEPT ![t] = [IdleTask EXCEPT !.pc = "fetchPaper", !.paper = p]]
    /\ UNCHANGED <<citation_counts, collaborators, ccWrites, collabWrites>>
    /\ UNCHANGED notCiteVars

\* s2.paper raises, and score_paper with it
ScorePaperFailed(t) ==
    /\ ctask[t].pc = "fetchPaper"
    /\ ctask' = [ctask EXCEPT ![t].pc = "raised"]
    /\ UNCHANGED <<citation_counts, collaborators, ccWrites, collabWrites>>
    /\ UNCHANGED notCiteVars

\* s2.paper answers: an unscorable paper returns None; otherwise the
\* collaborators are looked up, and fetched when missing
ScorePaperFetched(t) ==
    /\ ctask[t].pc = "fetchPaper"
    /\ ctask' = [ctask EXCEPT ![t] =
            IF Unscorable(@.paper, UserS2) THEN [@ EXCEPT !.pc = "none"]
            ELSE IF collaborators[UserS2] = NoCollabs THEN [@ EXCEPT !.pc = "fetchCollabs"]
            ELSE RunLoop([@ EXCEPT !.i = 1], citation_counts, collaborators[UserS2])]
    /\ UNCHANGED <<citation_counts, collaborators, ccWrites, collabWrites>>
    /\ UNCHANGED notCiteVars

\* author_papers(user) raises inside collaborators()
CollabsFailed(t) ==
    /\ ctask[t].pc = "fetchCollabs"
    /\ ctask' = [ctask EXCEPT ![t].pc = "raised"]
    /\ UNCHANGED <<citation_counts, collaborators, ccWrites, collabWrites>>
    /\ UNCHANGED notCiteVars

\* author_papers(user) answers: the collaborator set is stored and the loop starts
CollabsFetched(t) ==
    /\ ctask[t].pc = "fetchCollabs"
    /\ collaborators' = [collaborators EXCEPT ![UserS2] =
            StoreCollaborators(IF @ = NoCollabs THEN <<>> ELSE @, UserPaperAuthors, UserS2)]
    /\ collabWrites' = [collabWrites EXCEPT ![UserS2] = @ + 1]
    /\ ctask' = [ctask EXCEPT ![t] =
            RunLoop([@ EXCEPT !.i = 1], citation_counts, collaborators'[UserS2])]
    /\ UNCHANGED <<citation_counts, ccWrites>>
    /\ UNCHANGED notCiteVars

\* author_papers(collaborator) raises inside citation_counts()
CitesFailed(t) ==
    /\ ctask[t].pc = "fetchCites"
    /\ ctask' = [ctask EXCEPT ![t].pc = "raised"]
    /\ UNCHANGED <<citation_counts, collaborators, ccWrites, collabWrites>>
    /\ UNCHANGED notCiteVars

\* author_papers(collaborator) answers: the counts are tallied into the table,
\* the collaborator is scored and the loop goes on
CitesFetched(t) ==
    LET c == collaborators[UserS2][ctask[t].i] IN
    /\ ctask[t].pc = "fetchCites"
    /\ citation_counts' = [citation_counts EXCEPT ![c] = TallyCitations(@, RefAuthors(c))]
    /\ ccWrites' = [ccWrites EXCEPT ![c] = @ + 1]
    /\ ctask' = [ctask EXCEPT ![t] =
            RunLoop(ScoreCollaborator(@, c, citation_counts'[c]),
                    citation_counts', collaborators[UserS2])]
    /\ UNCHANGED <<collaborators, collabWrites>>
    /\ UNCHANGED notCiteVars

CiteNext ==
    \/ \E t \in CiteTasks, p \in CitePapers : ScoreStart(t, p)
    \/ \E t \in CiteTasks : ScorePaperFailed(t)
    \/ \E t \in CiteTasks : ScorePaperFetched(t)
    \/ \E t \in CiteTasks : CollabsFailed(t)
    \/ \E t \in CiteTasks : CollabsFetched(t)
    \/ \E t \in CiteTasks : CitesFailed(t)
    \/ \E t \in CiteTasks : CitesFetched(t)

(***************************************************************************)
(* util: extract_s2_id, pad_shortest, padded_cosine_sim                    *)
(***************************************************************************)
\* the last segment of the profile's path, None when it is empty
extract_s2_id(u) ==
    LET s2_id == ProfilePath(u)[Len(ProfilePath(u))]
    IN  IF s2_id # NoneId THEN s2_id ELSE NoneId

\* np.pad(v, (0, n), constant_values=0)
Pad(v, n) == [i \in 1..(Len(v) + n) |-> IF i <= Len(v) THEN v[i] ELSE 0]

\* pad_shortest(a, b): the shorter vector padded to the longer one's length
pad_shortest(a, b) ==
    LET len_diff == Len(a) - Len(b)
    IN  IF len_diff > 0 THEN <<a, Pad(b, len_diff)>>
        ELSE IF len_diff < 0 THEN <<Pad(a, -len_diff), b>>
        ELSE <<a, b>>

RECURSIVE Dot(_, _)
Dot(a, b) == IF a = <<>> THEN 0 ELSE Head(a) * Head(b) + Dot(Tail(a), Tail(b))

count_nonzero(v) == Cardinality({i \in DOMAIN v : v[i] # 0})

\* padded_cosine_sim(a, b). The vectors hold counts, so the cosine is >= 0 and
\* is kept as its square, the fraction <<dot^2, |a|^2 |b|^2>>: squaring keeps
\* the order and the sign of the scores.
padded_cosine_sim(a, b) ==
    IF count_nonzero(a) = 0 \/ count_nonzero(b) = 0 THEN <<0, 1>>
    ELSE LET ab == pad_shortest(a, b)
         IN  <<Dot(ab[1], ab[2]) * Dot(ab[1], ab[2]), Dot(ab[1], ab[1]) * Dot(ab[2], ab[2])>>

\* score > 0, and s > r, for scores kept as fractions
Positive(s) == s[1] > 0
Greater(s, r) == s[1] * r[2] > r[1] * s[2]

(***************************************************************************)
(* ArxivdigestRecommender: _gen_paper_representations, user_ranking,       *)
(* recommendations                                                         *)
(***************************************************************************)
RecInit ==
    /\ rpc = "start"
    /\ fetched = <<>>
    /\ genCalls = <<>>
    /\ papers = <<>>
    /\ interleaved_papers = [u \in SeqToSet(RecUsers) |-> {}]
    /\ max_recommendations = 0
    /\ utask = [u \in SeqToSet(RecUsers) |-> [st |-> "idle", log |-> "", ranking |-> <<>>, recs |-> <<>>]]
    /\ recommendations = <<>>

\* the subsequences of q, order kept: what gather returns of a batch
RECURSIVE SubSeqs(_)
SubSeqs(q) ==
    IF q = <<>> THEN {<<>>}
    ELSE LET rest == SubSeqs(Tail(q))
         IN  rest \cup {<<Head(q)>> \o r : r \in rest}

HasId(author) == author.authorId # NoneId

\* get_author_representation(a) as one call: the cached vector; or author
\* fetch, paper fetches (gather keeps those of ok), build and store; or, with
\* fail, a failed author fetch that stores nothing
GetAuthorRepresentation(a, fail, ok) ==
    IF authors[a] # NoVec \/ fail
    THEN UNCHANGED <<authors, cacheWrites>>
    ELSE /\ authors' = [authors EXCEPT ![a] = AuthorRepr(a, ok)]
         /\ cacheWrites' = [cacheWrites EXCEPT ![a] = @ + 1]
Raises(a, fail) == authors[a] = NoVec /\ fail

\* papers = await gather(s2.paper(arxiv_id=...) for every candidate id): the
\* failed fetches are dropped; every remaining paper starts one call per
\* author that has an id
GenFetchPapers(got) ==
    /\ rpc = "start"
    /\ fetched' = got
    /\ genCalls' = [p \in SeqToSet(got) |->
            [k \in DOMAIN SelectSeq(RecPaperAuthors(p), HasId) |->
                [authorId |-> SelectSeq(RecPaperAuthors(p), HasId)[k].authorId,
                 st |-> "pending", representation |-> NoVec]]]
    /\ rpc' = "gen"
    /\ UNCHANGED <<papers, interleaved_papers, max_recommendations, utask, recommendations>>
    /\ UNCHANGED <<authors, cacheWrites>>
    /\ UNCHANGED notRecVars

\* one get_author_representation call of author_representations(paper) settles
GenAuthorCall(p, k, fail, ok) ==
    /\ rpc = "gen"
    /\ genCalls[p][k].st = "pending"
    /\ GetAuthorRepresentation(genCalls[p][k].authorId, fail, ok)
    /\ genCalls' = [genCalls EXCEPT ![p][k] =
            IF Raises(genCalls[p][k].authorId, fail) THEN [@ EXCEPT !.st = "raised"]
            ELSE [@ EXCEPT !.st = "ok", !.representation = authors'[genCalls[p][k].authorId]]]
    /\ UNCHANGED <<rpc, fetched, papers, interleaved_papers, max_recommendations, utask,
                   recommendations>>
    /\ UNCHANGED notRecVars

IsOk(call) == call.st = "ok"

\* the entries author_representations(paper) returns: gather keeps the vectors
\* of the lookups that succeeded, and entry i takes its name from
\* paper["authors"][i]; authorId records whose vector it is
Entries(p, calls) ==
    LET ok == SelectSeq(calls, IsOk)
    IN  [i \in DOMAIN ok |->
            [name |-> RecPaperAuthors(p)[i].name,
             representation |-> ok[i].representation,
             authorId |-> ok[i].authorId]]

\* every author_representations(paper) has returned: self._papers is assigned
GenAssemble ==
    /\ rpc = "gen"
    /\ \A p \in DOMAIN genCalls : \A k \in DOMAIN genCalls[p] : genCalls[p][k].st # "pending"
    /\ papers' = [p \in DOMAIN genCalls |-> Entries(p, genCalls[p])]
    /\ rpc' = "ready"
    /\ UNCHANGED <<fetched, genCalls, interleaved_papers, max_recommendations, utask,
                   recommendations>>
    /\ UNCHANGED <<authors, cacheWrites>>
    /\ UNCHANGED notRecVars

\* recommendations(users, interleaved_papers, max_recommendations) is called:
\* one user_recommendations task per user
RecCall(inter, maxrec) ==
    /\ rpc = "ready"
    /\ interleaved_papers' = inter
    /\ max_recommendations' = maxrec
    /\ utask' = [u \in SeqToSet(RecUsers) |->
                    [st |-> "pending", log |-> "", ranking |-> <<>>, recs |-> <<>>]]
    /\ rpc' = "scoring"
    /\ UNCHANGED <<fetched, genCalls, papers, recommendations>>
    /\ UNCHANGED <<authors, cacheWrites>>
    /\ UNCHANGED notRecVars

\* what a call for author a can meet: nothing when the vector is cached (or
\* there is no id), otherwise a failed author fetch or the papers gather keeps
FailChoices(a) == IF a = NoneId \/ authors[a] # NoVec THEN {FALSE} ELSE BOOLEAN
PaperChoices(a, fail) ==
    IF a = NoneId \/ authors[a] # NoVec \/ fail THEN {{}} ELSE SUBSET OwnPapers(a)

\* max(..., key=lambda t: t[1]): the first entry with the highest similarity
MostSimilar(user, entries) ==
    entries[CHOOSE k \in DOMAIN entries :
        /\ \A j \in DOMAIN entries :
              ~Greater(padded_cosine_sim(user, entries[j].representation),
                       padded_cosine_sim(user, entries[k].representation))
        /\ \A j \in 1..(k - 1) :
              Greater(padded_cosine_sim(user, entries[k].representation),
                      padded_cosine_sim(user, entries[j].representation))]

\* the result user_ranking appends for one paper
Scored(user, p, entries) ==
    LET similar_author == MostSimilar(user, entries)
        score == padded_cosine_sim(user, similar_author.representation)
    IN  [article_id |-> p, score |-> score,
         explanation |-> IF Positive(score) THEN similar_author.name ELSE ""]

\* user_ranking past the user's vector: one result per paper of self._papers
Ranking(user) == [i \in DOMAIN fetched |-> Scored(user, fetched[i], papers[fetched[i]])]
\* max() of an empty list raises ValueError
RankingRaises == \E p \in DOMAIN papers : papers[p] = <<>>

\* the filter of user_recommendations, without the test of the score
Keep_NoScoreTest(u, recommendation) ==
    recommendation.article_id \notin interleaved_papers[u]
\* the filter of user_recommendations
Keep(u, recommendation) ==
    /\ recommendation.article_id \notin interleaved_papers[u]
    /\ Positive(recommendation.score)

RECURSIVE Filtered(_, _)
Filtered(u, ranking) ==
    IF ranking = <<>> THEN <<>>
    ELSE (IF Keep(u, Head(ranking)) THEN <<Head(ranking)>> ELSE <<>>)
            \o Filtered(u, Tail(ranking))

\* the order of the sort with the lowest score first
GoesBefore_Ascending(r, q) == Greater(q.score, r.score)
\* key=lambda r: r["score"], reverse=True: r precedes q when its score is higher
GoesBefore(r, q) == Greater(r.score, q.score)

\* r goes before the first element of the sorted list it must precede
RECURSIVE Insert(_, _)
Insert(r, sorted) ==
    IF sorted = <<>> THEN <<r>>
    ELSE IF GoesBefore(r, Head(sorted)) THEN <<r>> \o sorted
    ELSE <<Head(sorted)>> \o Insert(r, Tail(sorted))

\* sorted(ranking, key=lambda r: r["score"], reverse=True): stable, the
\* highest score first
RECURSIVE SortedByScore(_)
SortedByScore(ranking) ==
    IF ranking = <<>> THEN <<>>
    ELSE Insert(ranking[Len(ranking)], SortedByScore(SubSeq(ranking, 1, Len(ranking) - 1)))

\* [:max_recommendations]
Truncated(q, n) == SubSeq(q, 1, IF n < Len(q) THEN n ELSE Len(q))

\* user_recommendations(user_id, user_data), start to end
UserRecommendations(u, fail, ok) ==
    LET s2_id == extract_s2_id(u) IN
    /\ rpc = "scoring"
    /\ utask[u].st = "pending"
    /\ IF s2_id = NoneId
       THEN /\ utask' = [utask EXCEPT ![u] = [@ EXCEPT !.st = "done", !.log = "skipped"]]
            /\ UNCHANGED <<authors, cacheWrites>>
       ELSE /\ GetAuthorRepresentation(s2_id, fail, ok)
            /\ utask' = [utask EXCEPT ![u] =
                    IF Raises(s2_id, fail) THEN [@ EXCEPT !.st = "done", !.log = "unable"]
                    ELSE IF RankingRaises THEN [@ EXCEPT !.st = "raised"]
                    ELSE LET ranking == Ranking(authors'[s2_id])
                         IN  [st |-> "done",
                              log |-> "recommended",
                              ranking |-> ranking,
                              recs |-> Truncated(SortedByScore(Filtered(u, ranking)),
                                                 max_recommendations)]]
    /\ UNCHANGED <<rpc, fetched, genCalls, papers, interleaved_papers, max_recommendations,
                   recommendations>>
    /\ UNCHANGED notRecVars

\* asyncio.gather passes the first exception of a task on: recommendations() raises
RecRaise ==
    /\ rpc = "scoring"
    /\ \E u \in DOMAIN utask : utask[u].st = "raised"
    /\ rpc' = "raised"
    /\ UNCHANGED <<fetched, genCalls, papers, interleaved_papers, max_recommendations, utask,
                   recommendations>>
    /\ UNCHANGED <<authors, cacheWrites>>
    /\ UNCHANGED notRecVars

\* the same map without the length test: every user of the batch gets a key
ReturnedMap_KeepEmpty(tasks) == [u \in DOMAIN tasks |-> tasks[u].recs]

\* {user_id: user_recommendations for ... in zip(users.keys(), recommendations)
\*  if len(user_recommendations) > 0}
ReturnedMap(tasks) == [u \in {v \in DOMAIN tasks : Len(tasks[v].recs) > 0} |-> tasks[u].recs]

\* every task returned: the users with a non-empty list make the map
RecReturn ==
    /\ rpc = "scoring"
    /\ \A u \in DOMAIN utask : utask[u].st = "done"
    /\ recommendations' = ReturnedMap(utask)
    /\ rpc' = "returned"
    /\ UNCHANGED <<fetched, genCalls, papers, interleaved_papers, max_recommendations, utask>>
    /\ UNCHANGED <<authors, cacheWrites>>
    /\ UNCHANGED notRecVars

Next ==
    \/ \E got \in SubSeqs(RecPaperIds) : GenFetchPapers(got)
    \/ \E p \in DOMAIN genCalls : \E k \in DOMAIN genCalls[p] :
          \E fail \in FailChoices(genCalls[p][k].authorId) :
             \E ok \in PaperChoices(genCalls[p][k].authorId, fail) :
                GenAuthorCall(p, k, fail, ok)
    \/ GenAssemble
    \/ \E inter \in [SeqToSet(RecUsers) -> SUBSET InterleavedPool], maxrec \in 0..MaxRec :
          RecCall(inter, maxrec)
    \/ \E u \in SeqToSet(RecUsers) : \E fail \in FailChoices(extract_s2_id(u)) :
          \E ok \in PaperChoices(extract_s2_id(u), fail) :
             UserRecommendations(u, fail, ok)
    \/ RecRaise
    \/ RecReturn

(***************************************************************************)
(* ArxivdigestRecommender.recommend: the batch loop                        *)
(***************************************************************************)
\* recommend() is not running
MainIdle ==
    /\ mpc = "idle"
    /\ total_users = 0
    /\ recommendation_count = 0
    /\ user_ids = <<>>
    /\ scored = {}

\* recommend() has asked get_number_of_users and awaits _gen_paper_representations
MainInit ==
    /\ mpc = "gen"
    /\ total_users \in 0..Len(RecUsers)
    /\ recommendation_count = 0
    /\ user_ids = <<>>
    /\ scored = {}

\* a recommend() that starts the batch loop without awaiting the generation
GenCompleted_NoAwait == TRUE

\* `await self._gen_paper_representations()` returns when self._papers is assigned
GenCompleted == rpc = "ready"

\* the generation returned: recommendation_count = 0, on to the while test
MainGenReturned ==
    /\ mpc = "gen"
    /\ GenCompleted
    /\ mpc' = "loop"
    /\ recommendation_count' = 0
    /\ UNCHANGED <<total_users, user_ids, scored>>
    /\ UNCHANGED <<authors, cacheWrites>>
    /\ UNCHANGED notMainVars

\* the users the connector still has from offset on
Remaining(offset) == SubSeq(RecUsers, offset + 1, Len(RecUsers))

\* while recommendation_count < total_users: get_user_ids(recommendation_count)
\* hands out the next n users (none when n = 0), and recommendations() is
\* called for them
MainGetBatch(n) ==
    /\ mpc = "loop"
    /\ recommendation_count < total_users
    /\ n <= Len(Remaining(recommendation_count))
    /\ user_ids' = SubSeq(Remaining(recommendation_count), 1, n)
    /\ mpc' = "batch"
    /\ UNCHANGED <<total_users, recommendation_count, scored>>
    /\ UNCHANGED <<authors, cacheWrites>>
    /\ UNCHANGED notMainVars

\* one user_recommendations task of the batch runs: the user's vector is
\* looked up (and built and cached when missing); a ranking that raises makes
\* recommendations() raise, and recommend() with it
MainScoreUser(u, fail, ok) ==
    LET s2_id == extract_s2_id(u) IN
    /\ mpc = "batch"
    /\ u \in SeqToSet(user_ids)
    /\ u \notin scored
    /\ scored' = scored \cup {u}
    /\ IF s2_id = NoneId
       THEN /\ UNCHANGED <<authors, cacheWrites>>
            /\ UNCHANGED mpc
       ELSE /\ GetAuthorRepresentation(s2_id, fail, ok)
            /\ mpc' = IF ~Raises(s2_id, fail) /\ RankingRaises THEN "raised" ELSE "batch"
    /\ UNCHANGED <<total_users, recommendation_count, user_ids>>
    /\ UNCHANGED notMainVars

\* recommendations() returned: recommendation_count += len(user_ids)
MainBatchReturned ==
    /\ mpc = "batch"
    /\ SeqToSet(user_ids) \subseteq scored
    /\ recommendation_count' = recommendation_count + Len(user_ids)
    /\ mpc' = "loop"
    /\ UNCHANGED <<total_users, user_ids, scored>>
    /\ UNCHANGED <<authors, cacheWrites>>
    /\ UNCHANGED notMainVars

\* the while test fails: "Finished recommending."
MainFinish ==
    /\ mpc = "loop"
    /\ ~(recommendation_count < total_users)
    /\ mpc' = "finished"
    /\ UNCHANGED <<total_users, recommendation_count, user_ids, scored>>
    /\ UNCHANGED <<authors, cacheWrites>>
    /\ UNCHANGED notMainVars

RecommendNext ==
    \/ \E got \in SubSeqs(RecPaperIds) : GenFetchPapers(got)
    \/ \E p \in DOMAIN genCalls : \E k \in DOMAIN genCalls[p] :
          \E fail \in FailChoices(genCalls[p][k].authorId) :
             \E ok \in PaperChoices(genCalls[p][k].authorId, fail) :
                GenAuthorCall(p, k, fail, ok)
    \/ GenAssemble
    \/ MainGenReturned
    \/ \E n \in 0..MaxBatch : MainGetBatch(n)
    \/ \E u \in SeqToSet(RecUsers) : \E fail \in FailChoices(extract_s2_id(u)) :
          \E ok \in PaperChoices(extract_s2_id(u), fail) :
             MainScoreUser(u, fail, ok)
    \/ MainBatchReturned
    \/ MainFinish

(***************************************************************************)
(* util.gather                                                             *)
(***************************************************************************)
Ops == 1..NumOps

GatherInit ==
    /\ gops = [i \in Ops |-> "pending"]
    /\ gpc = "waiting"
    /\ gresult = <<>>
    /\ cancelled_is_exception \in BOOLEAN

\* the state of util.gather when nobody calls it
GatherIdle ==
    /\ gops = [i \in Ops |-> "pending"]
    /\ gpc = "waiting"
    /\ gresult = <<>>
    /\ cancelled_is_exception = FALSE

\* one operation of the batch settles: it returns a value ("ok"), raises an
\* Exception, or is cancelled
GatherSettle(i, outcome) ==
    /\ gpc = "waiting"
    /\ gops[i] = "pending"
    /\ gops' = [gops EXCEPT ![i] = outcome]
    /\ UNCHANGED <<gpc, gresult, cancelled_is_exception>>
    /\ UNCHANGED notGatherVars

\* isinstance(result, Exception), for the result asyncio.gather lists for an
\* operation: its value, the exception it raised, or a CancelledError
IsException(outcome) ==
    \/ outcome = "exception"
    \/ outcome = "cancelled" /\ cancelled_is_exception

\* [result for result in results if not isinstance(result, Exception)]
RECURSIVE NotExceptions(_)
NotExceptions(results) ==
    IF results = <<>> THEN <<>>
    ELSE (IF IsException(Head(results).outcome) THEN <<>> ELSE <<Head(results)>>)
            \o NotExceptions(Tail(results))

\* asyncio.gather(*args, return_exceptions=True) returns once every operation
\* has settled, one result per operation in the order given
GatherReturn ==
    /\ gpc = "waiting"
    /\ \A i \in Ops : gops[i] # "pending"
    /\ gresult' = NotExceptions([i \in Ops |-> [op |-> i, outcome |-> gops[i]]])
    /\ gpc' = "returned"
    /\ UNCHANGED <<gops, cancelled_is_exception>>
    /\ UNCHANGED notGatherVars

GatherNext ==
    \/ \E i \in Ops, outcome \in {"ok", "exception", "cancelled"} : GatherSettle(i, outcome)
    \/ GatherReturn

(***************************************************************************)
(* SemanticScholar: the scoped session, _get, get_author, get_paper         *)
(***************************************************************************)
AuthorCall == 0
PaperCalls == 1..NumPaperCalls
ClientCalls == {AuthorCall} \cup PaperCalls
\* what a caller can pass for s2_id and for arxiv_id: None or an id
S2IdArgs == {NoneId, 11}
ArxivIdArgs == {NoneId, 1}

NewCall ==
    [s2_id |-> NoneId, arxiv_id |-> NoneId, pc |-> "new", slots |-> 0, requests |-> <<>>]

\* __init__: no session
ClientInit ==
    /\ session = "None"
    /\ spc = "created"
    /\ exitPath = ""
    /\ lookups = [c \in ClientCalls |-> NewCall]

\* __aenter__ opens the session; the body starts with `await s2.author(s2_id)`
ClientEnter(a) ==
    /\ spc = "created"
    /\ session' = "open"
    /\ spc' = "author"
    /\ lookups' = [lookups EXCEPT ![AuthorCall] = [@ EXCEPT !.s2_id = a, !.pc = "waitslot"]]
    /\ UNCHANGED exitPath
    /\ UNCHANGED notClientVars

\* the author arrived: the body goes on to gather the paper lookups
ScopeGather(args) ==
    /\ spc = "author"
    /\ lookups[AuthorCall].pc = "ok"
    /\ spc' = "papers"
    /\ lookups' = [c \in DOMAIN lookups |->
                    IF c = AuthorCall THEN lookups[c]
                    ELSE [lookups[c] EXCEPT !.s2_id = args[c][1], !.arxiv_id = args[c][2],
                                          !.pc = "called"]]
    /\ UNCHANGED <<session, exitPath>>
    /\ UNCHANGED notClientVars

\* the test with the comparison against two: only a lookup without any id fails
Invalid_OnlyNeither(s2_id, arxiv_id) ==
    Cardinality({k \in {1, 2} : <<s2_id, arxiv_id>>[k] = NoneId}) = 2

\* sum(i is None for i in (s2_id, arxiv_id)) != 1
Invalid(s2_id, arxiv_id) ==
    Cardinality({k \in {1, 2} : <<s2_id, arxiv_id>>[k] = NoneId}) # 1

\* paper_id = s2_id if s2_id is not None else f"arXiv:{arxiv_id}"
paper_id(s2_id, arxiv_id) == IF s2_id # NoneId THEN <<"", s2_id>> ELSE <<"arXiv:", arxiv_id>>

\* the endpoint a lookup asks for
Endpoint(c) ==
    IF c = AuthorCall THEN <<"/author/", <<"", lookups[c].s2_id>>>>
    ELSE <<"/paper/", paper_id(lookups[c].s2_id, lookups[c].arxiv_id)>>

\* get_paper starts: ValueError unless exactly one id is given, else on to _get
GetPaper(c) ==
    /\ c \in PaperCalls
    /\ lookups[c].pc = "called"
    /\ lookups' = [lookups EXCEPT ![c].pc =
                    IF Invalid(lookups[c].s2_id, lookups[c].arxiv_id) THEN "invalid" ELSE "waitslot"]
    /\ UNCHANGED <<session, spc, exitPath>>
    /\ UNCHANGED notClientVars

\* _get: the limiter lets the lookup in, and the request goes out on the
\* session (without a session the attribute access fails after the slot is taken)
ClientRequest(c) ==
    /\ lookups[c].pc = "waitslot"
    /\ lookups' = [lookups EXCEPT ![c] =
                    IF session = "open"
                    THEN [@ EXCEPT !.slots = @ + 1, !.requests = Append(@, Endpoint(c)),
                                   !.pc = "inflight"]
                    ELSE [@ EXCEPT !.slots = @ + 1, !.pc = "error"]]
    /\ UNCHANGED <<session, spc, exitPath>>
    /\ UNCHANGED notClientVars

\* the response arrives: json on success, raise_for_status or a transport error otherwise
ClientResponse(c, ok) ==
    /\ lookups[c].pc = "inflight"
    /\ lookups' = [lookups EXCEPT ![c].pc = IF ok THEN "ok" ELSE "error"]
    /\ UNCHANGED <<session, spc, exitPath>>
    /\ UNCHANGED notClientVars

\* a gather that hands back whatever has settled so far
BatchSettled_NoWait == TRUE

\* util.gather returns once every gathered lookup has settled
BatchSettled == \A c \in PaperCalls : lookups[c].pc \in {"invalid", "ok", "error"}

\* __aexit__, first half: `await self._session.close()`, reached when the
\* author lookup raised (failing path) or when the gather returned (normal path)
ScopeClose ==
    /\ \/ spc = "author" /\ lookups[AuthorCall].pc = "error" /\ exitPath' = "failing"
       \/ spc = "papers" /\ BatchSettled /\ exitPath' = "normal"
    /\ session' = "closed"
    /\ spc' = "closing"
    /\ UNCHANGED lookups
    /\ UNCHANGED notClientVars

\* __aexit__, second half: `self._session = None`
ScopeExit ==
    /\ spc = "closing"
    /\ session' = "None"
    /\ spc' = "exited"
    /\ UNCHANGED <<exitPath, lookups>>
    /\ UNCHANGED notClientVars

ClientNext ==
    \/ \E a \in AuthorIds : ClientEnter(a)
    \/ \E args \in [PaperCalls -> S2IdArgs \X ArxivIdArgs] : ScopeGather(args)
    \/ \E c \in PaperCalls : GetPaper(c)
    \/ \E c \in ClientCalls : ClientRequest(c)
    \/ \E c \in ClientCalls, ok \in BOOLEAN : ClientResponse(c, ok)
    \/ ScopeClose
    \/ ScopeExit

\* the dict score_paper returns
Result(st) ==
    [article_id |-> st.paper, score |-> st.score,
     explanation |-> IF st.score > 0
                     THEN <<st.most_cited_author, st.citer, st.score>> ELSE <<>>]

\* a limiter nobody enters
LimIdle ==
    /\ max_enters = 1
    /\ window_size = 1
    /\ enters = <<>>
    /\ limLock = NoTask
    /\ lpc = [t \in LimTasks |-> "idle"]
    /\ wake = [t \in LimTasks |-> 0]
    /\ ttnw = [t \in LimTasks |-> 0]
    /\ now = 0
    /\ history = <<>>

InitLimiter == LimInit /\ VecInit /\ CiteInit /\ RecInit /\ GatherIdle /\ ClientInit /\ MainIdle
InitVec == LimIdle /\ VecInit /\ CiteInit /\ RecInit /\ GatherIdle /\ ClientInit /\ MainIdle
InitCite == LimIdle /\ VecInit /\ CiteInit /\ RecInit /\ GatherIdle /\ ClientInit /\ MainIdle
Init == LimIdle /\ VecInit /\ CiteInit /\ RecInit /\ GatherIdle /\ ClientInit /\ MainIdle
InitGather == LimIdle /\ VecInit /\ CiteInit /\ RecInit /\ GatherInit /\ ClientInit /\ MainIdle
InitClient == LimIdle /\ VecInit /\ CiteInit /\ RecInit /\ GatherIdle /\ ClientInit /\ MainIdle
InitRecommend == LimIdle /\ VecInit /\ CiteInit /\ RecInit /\ GatherIdle /\ ClientInit /\ MainInit

Spec == Init /\ [][Next]_vars

SpecLimiter == InitLimiter /\ [][LimNext]_vars
SpecVec == InitVec /\ [][VecNext]_vars
SpecCite == InitCite /\ [][CiteNext]_vars
\* every remote fetch settles, and a task waiting for a free lock gets to run
FairSpecVec ==
    /\ InitVec
    /\ [][VecNext]_vars
    /\ \A t \in VecTasks :
          /\ WF_vars(VecAcquire(t))
          /\ WF_vars(VecAuthorFetched(t) \/ VecAuthorFetchFailed(t))
          /\ WF_vars(\E ok \in SUBSET OwnPapers(vtarget[t]) : VecPapersSettled(t, ok))
SpecGather == InitGather /\ [][GatherNext]_vars
SpecClient == InitClient /\ [][ClientNext]_vars
\* the event loop keeps running recommend() as long as it has a step to take
SpecRecommend == InitRecommend /\ [][RecommendNext]_vars /\ WF_vars(RecommendNext)

\* tasks that asked for author a
Askers(a) == {t \in VecTasks : vtarget[t] = a /\ vpc[t] # "idle"}
Builders(a) == {t \in Askers(a) : vpc[t] \in {"fetchAuthor", "fetchPapers"}}
Settled(a) == \A t \in Askers(a) : vpc[t] \in {"returned", "raised"}

\* C2 (as stated): for N >= 1 concurrent callers of one uncached author id,
\* exactly one fetch-and-build sequence is executed.
C2_ExactlyOneSequence ==
    \A a \in AuthorIds :
        /\ authorFetches[a] <= 1
        /\ (Askers(a) # {} /\ Settled(a)) => authorFetches[a] = 1

\* C2 (amended): at most one sequence runs at a time, at most one ends in a
\* cache write, every sequence but the first follows a failed author fetch,
\* none starts once the vector is stored, and every returned vector is the
\* stored one.
C2_OneBuildAtATime ==
    \A a \in AuthorIds :
        /\ Cardinality(Builders(a)) <= 1
        /\ cacheWrites[a] <= 1
        /\ authorFetches[a] <= buildFailures[a] + 1
        /\ authorFetches[a] = buildFailures[a] + cacheWrites[a] + Cardinality(Builders(a))
        /\ (authors[a] # NoVec) = (cacheWrites[a] = 1)
        /\ \A t \in Askers(a) : vpc[t] = "returned" => vret[t] = authors[a] /\ vret[t] # NoVec

\* three callers of one author: one built, the two others reused the vector
C2_Witness ==
    \E a \in AuthorIds :
        /\ Cardinality({t \in Askers(a) : vpc[t] = "returned"}) >= 3
        /\ authorFetches[a] = 1
        /\ cacheWrites[a] = 1

\* C1: no interval of length window_size holds more than max_enters
\* completed entries (timestamps appended to enters).
C1_SlidingWindowCeiling ==
    \A s \in 0..MaxTime :
        Cardinality({i \in DOMAIN history : s <= history[i] /\ history[i] < s + window_size})
            <= max_enters

\* C8: from an empty limiter, the (max_enters+1)-th entry completes no earlier
\* than the first entry's time plus window_size.
C8_OverflowEntryDelayed ==
    Len(history) > max_enters =>
        history[max_enters + 1] >= history[1] + window_size

\* the (max_enters+1)-th operation arrived inside the window, slept and completed
C8_Witness ==
    /\ Len(history) = max_enters + 1
    /\ \E t \in LimTasks : lpc[t] = "done" /\ ttnw[t] > 0

\* C3: each citation table, collaborator set and author vector is computed at
\* most once per identifier, and a written entry is never modified.
C3_ComputedAtMostOnce ==
    /\ \A c \in CollabIds : ccWrites[c] <= 1
    /\ \A c \in CollabIds :
          citation_counts[c] # NoTable => citation_counts[c] = TallyCitations(NoTable, RefAuthors(c))
    /\ \A u \in CiteUsers : collabWrites[u] <= 1
    /\ \A a \in AuthorIds : cacheWrites[a] <= 1

\* the highest count table holds for an author of paper p
Highest(table, p) == MaxOf({Count(table, a) : a \in SeqToSet(CitePaperAuthors(p))})
\* the collaborators that may contribute to paper p
Contributors(p) ==
    {c \in SeqToSet(collaborators[UserS2]) : c \notin SeqToSet(CitePaperAuthors(p))}

\* what C9 says of task t's result, against the tables given
ScoreIsMaxCount(t, tables) ==
    LET r == Result(ctask[t])
        p == ctask[t].paper
    IN  /\ r.score = MaxOf({Highest(tables[c], p) : c \in Contributors(p)})
        /\ r.score > 0 =>
              /\ r.explanation[1] \in SeqToSet(CitePaperAuthors(p))
              /\ r.explanation[2] \in Contributors(p)
              /\ Count(tables[r.explanation[2]], r.explanation[1]) = r.score
        /\ r.score = 0 => r.explanation = <<>>

\* C9: when score_paper returns for a scorable candidate, the score is the
\* maximum, over the collaborators who are not authors of the candidate, of the
\* highest count the collaborator's table holds for a candidate author; a
\* positive score comes with an explanation naming an author and a collaborator
\* whose table entry equals it, a zero score with an empty explanation.
C9_ScoreIsMaxCount ==
    [][\A t \in CiteTasks :
          (ctask[t].pc # "returned" /\ ctask'[t].pc = "returned")
              => ScoreIsMaxCount(t, citation_counts)']_vars

\* the same of the tables as the task read them, one collaborator after the other
ScoreIsMaxCountAsRead ==
    \A t \in CiteTasks : ctask[t].pc = "returned" => ScoreIsMaxCount(t, ctask[t].seen)

\* the S2 ids of the authors of candidate paper p
RecAuthorIds(p) == {RecPaperAuthors(p)[i].authorId : i \in DOMAIN RecPaperAuthors(p)}

\* C4: a candidate paper with the user among its authors is never recommended
\* to that user: score_paper returns no result for it, and the map
\* recommendations() returns does not hold it for that user.
C4_OwnPapersNeverRecommended ==
    /\ \A t \in CiteTasks :
          ctask[t].pc = "returned" => UserS2 \notin SeqToSet(CitePaperAuthors(ctask[t].paper))
    /\ rpc = "returned" =>
          \A u \in DOMAIN recommendations : \A i \in DOMAIN recommendations[u] :
              extract_s2_id(u) \notin RecAuthorIds(recommendations[u][i].article_id)

\* C5: no failure of one candidate or one user aborts the batch:
\* recommendations() returns normally, also when a candidate paper has no
\* author vector at all.
C5_BatchNeverAborted ==
    /\ rpc # "raised"
    /\ \A u \in DOMAIN utask : utask[u].st # "raised"

\* C6: every list of the returned map has between 1 and max_recommendations
\* entries, each with a score > 0 and an article outside the user's
\* interleaved set.
C6_ListsBoundedPositiveFresh ==
    rpc = "returned" =>
        \A u \in DOMAIN recommendations :
            /\ Len(recommendations[u]) >= 1
            /\ Len(recommendations[u]) <= max_recommendations
            /\ \A i \in DOMAIN recommendations[u] :
                  /\ Positive(recommendations[u][i].score)
                  /\ recommendations[u][i].article_id \notin interleaved_papers[u]

\* a returned list cut to max_recommendations, of a ranking that held an
\* interleaved article and a zero score
C6_Witness ==
    /\ rpc = "returned"
    /\ \E u \in DOMAIN recommendations :
          /\ Len(recommendations[u]) = max_recommendations
          /\ Len(Filtered(u, utask[u].ranking)) > max_recommendations
    /\ \E u \in DOMAIN recommendations : \E i \in DOMAIN utask[u].ranking :
          utask[u].ranking[i].article_id \in interleaved_papers[u]
    /\ \E u \in DOMAIN recommendations : \E i \in DOMAIN utask[u].ranking :
          ~Positive(utask[u].ranking[i].score)

ArticleIds(list) == {list[i].article_id : i \in DOMAIN list}

\* C7: every returned list is in non-increasing score order, and no surviving
\* candidate left out of it has a score above that of a candidate in it.
C7_SortedTopOfRanking ==
    rpc = "returned" =>
        \A u \in DOMAIN recommendations :
            LET list == recommendations[u]
                survivors == Filtered(u, utask[u].ranking)
            IN  /\ \A i, j \in DOMAIN list : i < j => ~Greater(list[j].score, list[i].score)
                /\ \A k \in DOMAIN survivors :
                      survivors[k].article_id \notin ArticleIds(list) =>
                          \A i \in DOMAIN list : ~Greater(survivors[k].score, list[i].score)

\* a lower-scored survivor that preceded the kept candidate in the ranking was
\* cut away, and a list of two has its scores in strictly falling order
C7_Witness ==
    /\ rpc = "returned"
    /\ \E u \in DOMAIN recommendations : \E i, j \in DOMAIN utask[u].ranking :
          /\ i < j
          /\ Keep(u, utask[u].ranking[i])
          /\ utask[u].ranking[i].article_id \notin ArticleIds(recommendations[u])
          /\ utask[u].ranking[j].article_id = recommendations[u][1].article_id
          /\ Greater(utask[u].ranking[j].score, utask[u].ranking[i].score)

\* the name paper p gives the author with id a
NameOf(p, a) == (CHOOSE au \in SeqToSet(RecPaperAuthors(p)) : au.authorId = a).name

\* C10: every entry stored for a candidate paper names the author whose id its
\* representation was built for.
C10_NameMatchesRepresentation ==
    \A p \in DOMAIN papers : \A i \in DOMAIN papers[p] :
        papers[p][i].name = NameOf(p, papers[p][i].authorId)

\* the candidates of user u that survive the filter and the cut, computed from
\* the user's own profile, the user's own vector and the candidate papers only
Survivors(u) ==
    IF extract_s2_id(u) = NoneId \/ authors[extract_s2_id(u)] = NoVec THEN <<>>
    ELSE Truncated(SortedByScore(Filtered(u, Ranking(authors[extract_s2_id(u)]))),
                   max_recommendations)

\* C12: the map recommendations() returns holds exactly the users with at
\* least one surviving candidate; a user without an S2 id, a user whose vector
\* build failed and a user whose candidates were all filtered out are absent,
\* and every user in the map has the list that follows from that user's own
\* data, whoever else of the batch is absent.
C12_MapHoldsExactlyUsersWithSurvivors ==
    rpc = "returned" =>
        \A u \in SeqToSet(RecUsers) :
            /\ u \in DOMAIN recommendations <=> Survivors(u) # <<>>
            /\ utask[u].log \in {"skipped", "unable"} => u \notin DOMAIN recommendations
            /\ (\A i \in DOMAIN utask[u].ranking : ~Keep(u, utask[u].ranking[i]))
                  => u \notin DOMAIN recommendations
            /\ u \in DOMAIN recommendations => recommendations[u] = Survivors(u)

\* a returned batch with a user in the map, a user without an S2 id and a user
\* whose vector build failed
C12_Witness ==
    /\ rpc = "returned"
    /\ DOMAIN recommendations # {}
    /\ \E u \in SeqToSet(RecUsers) : utask[u].log = "skipped"
    /\ \E u \in SeqToSet(RecUsers) : utask[u].log = "unable"

\* a returned batch with a user in the map and a user whose vector was built
\* but whose candidates were all filtered out
C12_WitnessAllFiltered ==
    /\ rpc = "returned"
    /\ DOMAIN recommendations # {}
    /\ \E u \in SeqToSet(RecUsers) :
          /\ utask[u].log = "recommended"
          /\ utask[u].ranking # <<>>
          /\ u \notin DOMAIN recommendations

\* C11: util.gather returns once every operation has settled, and returns
\* exactly the results of the successful operations, in their original order,
\* with no failure object (exception or cancellation) among them.
C11_OnlySuccessfulResults ==
    gpc = "returned" =>
        /\ \A i \in Ops : gops[i] # "pending"
        /\ \A k \in DOMAIN gresult : gresult[k].outcome = "ok"
        /\ \A j, k \in DOMAIN gresult : j < k => gresult[j].op < gresult[k].op
        /\ {gresult[k].op : k \in DOMAIN gresult} = {i \in Ops : gops[i] = "ok"}

\* how many of the two ids a paper lookup was given
Supplied(c) == Cardinality({k \in {1, 2} : <<lookups[c].s2_id, lookups[c].arxiv_id>>[k] # NoneId})

\* the paper lookups that have started
StartedPaperCalls == {c \in PaperCalls : lookups[c].pc \notin {"new", "called"}}

\* C13: a paper lookup given neither or both of s2_id and arxiv_id fails at
\* once, with no rate-limiter slot acquired and no request on the session; a
\* lookup given exactly one id makes exactly one request, for /paper/{id}.
C13_ExactlyOneIdOrNoRequest ==
    \A c \in StartedPaperCalls :
        /\ Supplied(c) # 1 =>
              lookups[c].pc = "invalid" /\ lookups[c].slots = 0 /\ lookups[c].requests = <<>>
        /\ Supplied(c) = 1 =>
              /\ lookups[c].pc # "invalid"
              /\ Len(lookups[c].requests) <= 1 /\ lookups[c].slots <= 1
              /\ lookups[c].pc \in {"inflight", "ok", "error"} =>
                    /\ lookups[c].slots = 1
                    /\ lookups[c].requests =
                          <<  <<"/paper/", IF lookups[c].s2_id # NoneId
                                           THEN <<"", lookups[c].s2_id>>
                                           ELSE <<"arXiv:", lookups[c].arxiv_id>> >>  >>

\* one gather with a lookup given both ids, which failed, next to a lookup
\* given only an arXiv id, which was answered
C13_Witness ==
    /\ \E c \in StartedPaperCalls : Supplied(c) = 2 /\ lookups[c].pc = "invalid"
    /\ \E c \in StartedPaperCalls :
          lookups[c].s2_id = NoneId /\ lookups[c].arxiv_id # NoneId /\ lookups[c].pc = "ok"

\* C14: a scoped use of the client closes its session on every exit path,
\* normal or failing; no request of the scope is in flight on the session when
\* it is closed, and after the exit the client holds no session.
C14_SessionClosedOnEveryExit ==
    /\ session # "open" => \A c \in ClientCalls : lookups[c].pc # "inflight"
    /\ spc \in {"author", "papers"} <=> session = "open"
    /\ spc = "closing" => session = "closed" /\ exitPath \in {"normal", "failing"}
    /\ spc = "exited" => session = "None" /\ exitPath \in {"normal", "failing"}
    /\ \A c \in ClientCalls : Len(lookups[c].requests) = lookups[c].slots

\* a scope left on the normal path after a paper request failed and another was answered
C14_Witness ==
    /\ spc = "exited"
    /\ exitPath = "normal"
    /\ session = "None"
    /\ \E c \in PaperCalls : lookups[c].pc = "error" /\ lookups[c].requests # <<>>
    /\ \E c \in PaperCalls : lookups[c].pc = "ok"

\* a scope left on the failing path: the author lookup raised
C14_WitnessFailing ==
    /\ spc = "exited"
    /\ exitPath = "failing"
    /\ session = "None"

\* C15: in recommend() the representations of the candidate papers are
\* generated once, and the generation has completed before the first user of
\* any batch is scored; scoring users never changes self._papers.
C15_GeneratedOnceBeforeScoring ==
    [][/\ rpc' = "start" => rpc = "start"
       /\ rpc' = "gen" => rpc \in {"start", "gen"}
       /\ scored' # scored =>
             /\ rpc = "ready"
             /\ papers = [p \in DOMAIN genCalls |-> Entries(p, genCalls[p])]
             /\ DOMAIN papers = SeqToSet(fetched)
       /\ mpc # "gen" => papers' = papers]_vars

\* a user of the second batch has been scored, after candidate papers were stored
C15_Witness ==
    /\ mpc = "batch"
    /\ recommendation_count > 0
    /\ \E u \in SeqToSet(user_ids) : u \in scored
    /\ DOMAIN papers # {}

\* C16: a failed remote fetch never leaves a value in a shared cache: a stored
\* author vector is the one built from the author and all of the author's
\* papers, never one derived from the papers that happened to arrive.
C16_NoValueFromIncompleteData ==
    \A a \in AuthorIds :
        authors[a] # NoVec => authors[a] = AuthorRepr(a, OwnPapers(a))

\* the tasks inside the section of __aenter__ that reads and changes enters
InSection == {t \in LimTasks : lpc[t] = "sleeping"}

\* C17: entries into the rate limiter go through one lock: at most one task
\* at a time is inside the section that reads and changes enters, also while
\* it sleeps, and enters never holds more than max_enters timestamps.
C17_OneTaskInSection ==
    /\ Cardinality(InSection) <= 1
    /\ \A t \in InSection : limLock = t
    /\ limLock # NoTask => limLock \in InSection
    /\ Len(enters) <= max_enters

\* one task sleeps inside the section on a full list while another waits for the lock
C17_Witness ==
    /\ \E t \in InSection : wake[t] > now
    /\ \E t \in LimTasks : lpc[t] = "waitlock"
    /\ Len(enters) = max_enters

\* C18: whatever the interleaving of the score_paper tasks that ask for one
\* collaborator's citation table, the stored count of every cited author is
\* the number of times that author occurs among the authors of the references
\* of the collaborator's papers, counted once.
C18_CountsAreOccurrences ==
    \A c \in CollabIds :
        citation_counts[c] # NoTable =>
            \A a \in CiteIds : Count(citation_counts[c], a) = Occurrences(RefAuthors(c), a)

\* C20: the locks never deadlock: provided every remote fetch settles, every
\* call of get_author_representation returns a vector or raises, also when it
\* waits for the lock of an author whose builder fails.
C20_EveryCallSettles ==
    \A t \in VecTasks : (vpc[t] = "waitlock") ~> (vpc[t] \in {"returned", "raised"})

\* a builder raised, and a task that asked for the same author afterwards got
\* the lock, built the vector and returned it
C20_Witness ==
    \E a \in AuthorIds : \E t1, t2 \in Askers(a) :
        /\ vpc[t1] = "raised"
        /\ vpc[t2] = "returned"
        /\ buildFailures[a] >= 1
        /\ cacheWrites[a] = 1

\* C19: recommend() eventually terminates whatever the connector hands out,
\* also when a requested batch comes back empty while fewer than total_users
\* users have been processed.
C19_RecommendTerminates == <>(mpc \in {"finished", "raised"})

====
